---- MODULE Spec2Model ----
(***************************************************************************)
(* Model of telegram-channel-monitor: the product matching engine         *)
(* (src/src/matcher.py, class ProductMatcher) and the monitor that feeds   *)
(* it (src/src/monitor.py, class ChannelMonitor; src/src/notifier.py,      *)
(* class Notifier).                                                        *)
(*                                                                         *)
(* Representation.                                                         *)
(*   - A Python str is a sequence of characters.  A character is a TLA+    *)
(*     string: a printable ASCII character stands for itself, "\t" and     *)
(*     "\n" for tab and newline, and any other character is named by its   *)
(*     code point, "U+0410" (CYRILLIC CAPITAL LETTER A), "U+20AC" (EURO    *)
(*     SIGN), "U+00A0" (NO-BREAK SPACE).                                   *)
(*   - A regular expression (a keyword, a price pattern template) is a     *)
(*     sequence of tokens of the regular expression syntax; the Python     *)
(*     string is the concatenation of the tokens.  The tokens are listed   *)
(*     with re_compile below.                                              *)
(*   - A price is a number of hundredths (250.0 is 25000, 12.5 is 1250):   *)
(*     _parse_price_string yields at most two fractional digits.           *)
(*   - Optional[x] is a sequence: <<>> is None and <<x>> is the value x.   *)
(*   - An operator named f_raises tells whether the call of f lets an      *)
(*     exception escape; f itself is the value returned when it does not.  *)
(***************************************************************************)
EXTENDS Integers, Sequences, FiniteSets, TLC

VARIABLES
    case_sensitive,    \* ProductMatcher.case_sensitive
    whole_word,        \* ProductMatcher.whole_word
    regex_enabled,     \* ProductMatcher.regex_enabled
    products,          \* ProductMatcher.products, the catalog
    price_patterns,    \* ProductMatcher.price_patterns
    message_text,      \* the message text handed to the engine
    keyword,           \* the keyword handed to _match_keyword
    pc,                \* position of the caller: what has been called so far
    normalized,        \* value returned by _normalize_text
    kw_result,         \* value returned by _match_keyword
    price_info,        \* value returned by _extract_price
    matched_products,  \* value returned by match_message
    raised,            \* exception that escaped the last call, or "none"
    price_string,      \* the string handed to _parse_price_string
    parsed_price,      \* value returned by _parse_price_string
    calls,             \* the calls of match_message in progress, by caller
    max_age_days,      \* ChannelMonitor.max_age_days
    save_matches,      \* ChannelMonitor.save_matches
    telegram_enabled,  \* Notifier.telegram_config['enabled']
    tasks,             \* the coroutines that run _process_message, by task
    matched_messages,  \* ChannelMonitor.matched_messages
    matches_file,      \* content of ChannelMonitor.matches_file
    last_save          \* how the last _save_match ended

\* The variables of ChannelMonitor and of the callers of the engine.
\* The variables of ChannelMonitor and of its Notifier.
channel_vars == <<max_age_days, save_matches, telegram_enabled, tasks, matched_messages,
                  matches_file, last_save>>

monitor_vars == <<price_string, parsed_price, calls, channel_vars>>

\* The configuration of ProductMatcher.
matcher_config == <<case_sensitive, whole_word, regex_enabled, products, price_patterns>>

\* The variables of the calls of the engine made one at a time.
engine_vars == <<message_text, keyword, pc, normalized, kw_result, price_info,
                 matched_products, raised>>

vars == <<case_sensitive, whole_word, regex_enabled, products, price_patterns,
          message_text, keyword, pc, normalized, kw_result, price_info,
          matched_products, raised, monitor_vars>>

(***************************************************************************)
(* Bounds of the model.                                                    *)
(***************************************************************************)
NormMaxLen == 2
KwTextMaxLen == 3
KwMaxLen == 2
ObfTextMaxLen == 2
ObfKwMaxLen == 2
PriceTextMaxLen == 2
ParseMaxLen == 4
MaxPricePatterns == 2
MaxProducts == 2
MaxScanMessages == 2
MaxAgeDays == 2
MaxDay == 3

None == <<>>
Some(x) == <<x>>

\* Body(value), with value computed once and bound before Body is.
With(value, Body(_)) == CHOOSE result \in {Body(v) : v \in {value}} : TRUE

\* All sequences over S of length at most n.
SeqsUpTo(S, n) == UNION {[1..k -> S] : k \in 0..n}

(***************************************************************************)
(* Characters.                                                             *)
(***************************************************************************)
CYRILLIC_TO_LATIN_bad ==
    "U+0410" :> "U+0430" @@ "U+0412" :> "B" @@ "U+0415" :> "E" @@ "U+041A" :> "K" @@ "U+041C" :> "M" @@
    "U+041D" :> "H" @@ "U+041E" :> "O" @@ "U+0420" :> "P" @@ "U+0421" :> "C" @@ "U+0422" :> "T" @@
    "U+0425" :> "X" @@ "U+0423" :> "Y" @@ "U+0406" :> "I" @@ "U+0430" :> "a" @@ "U+0435" :> "e" @@
    "U+043E" :> "o" @@ "U+0440" :> "p" @@ "U+0441" :> "c" @@ "U+0443" :> "y" @@ "U+0445" :> "x" @@
    "U+0456" :> "i"

\* The look-alike table: Cyrillic letter |-> Latin letter.
CYRILLIC_TO_LATIN ==
    "U+0410" :> "A" @@ "U+0412" :> "B" @@ "U+0415" :> "E" @@ "U+041A" :> "K" @@ "U+041C" :> "M" @@
    "U+041D" :> "H" @@ "U+041E" :> "O" @@ "U+0420" :> "P" @@ "U+0421" :> "C" @@ "U+0422" :> "T" @@
    "U+0425" :> "X" @@ "U+0423" :> "Y" @@ "U+0406" :> "I" @@ "U+0430" :> "a" @@ "U+0435" :> "e" @@
    "U+043E" :> "o" @@ "U+0440" :> "p" @@ "U+0441" :> "c" @@ "U+0443" :> "y" @@ "U+0445" :> "x" @@
    "U+0456" :> "i"

\* str.lower() on one character: upper-case letter |-> lower-case letter, for
\* the Latin alphabet, the Cyrillic block U+0410..U+042F and U+0406.
LOWER ==
    "A" :> "a" @@ "B" :> "b" @@ "C" :> "c" @@ "D" :> "d" @@ "E" :> "e" @@ "F" :> "f" @@
    "G" :> "g" @@ "H" :> "h" @@ "I" :> "i" @@ "J" :> "j" @@ "K" :> "k" @@ "L" :> "l" @@
    "M" :> "m" @@ "N" :> "n" @@ "O" :> "o" @@ "P" :> "p" @@ "Q" :> "q" @@ "R" :> "r" @@
    "S" :> "s" @@ "T" :> "t" @@ "U" :> "u" @@ "V" :> "v" @@ "W" :> "w" @@ "X" :> "x" @@
    "Y" :> "y" @@ "Z" :> "z" @@
    "U+0410" :> "U+0430" @@ "U+0411" :> "U+0431" @@ "U+0412" :> "U+0432" @@ "U+0413" :> "U+0433" @@
    "U+0414" :> "U+0434" @@ "U+0415" :> "U+0435" @@ "U+0416" :> "U+0436" @@ "U+0417" :> "U+0437" @@
    "U+0418" :> "U+0438" @@ "U+0419" :> "U+0439" @@ "U+041A" :> "U+043A" @@ "U+041B" :> "U+043B" @@
    "U+041C" :> "U+043C" @@ "U+041D" :> "U+043D" @@ "U+041E" :> "U+043E" @@ "U+041F" :> "U+043F" @@
    "U+0420" :> "U+0440" @@ "U+0421" :> "U+0441" @@ "U+0422" :> "U+0442" @@ "U+0423" :> "U+0443" @@
    "U+0424" :> "U+0444" @@ "U+0425" :> "U+0445" @@ "U+0426" :> "U+0446" @@ "U+0427" :> "U+0447" @@
    "U+0428" :> "U+0448" @@ "U+0429" :> "U+0449" @@ "U+042A" :> "U+044A" @@ "U+042B" :> "U+044B" @@
    "U+042C" :> "U+044C" @@ "U+042D" :> "U+044D" @@ "U+042E" :> "U+044E" @@ "U+042F" :> "U+044F" @@
    "U+0406" :> "U+0456"

UpperLetters == DOMAIN LOWER
LowerLetters == {LOWER[c] : c \in UpperLetters}
Letters == UpperLetters \cup LowerLetters
Digits == {"0", "1", "2", "3", "4", "5", "6", "7", "8", "9"}

\* str.isspace(), the class \s of re, the characters str.strip() removes.
Whitespace == {" ", "\t", "\n", "U+00A0"}

\* The class \w of re on str patterns: letters, digits and the underscore.
IsWordChar(c) == c \in Letters \cup Digits \cup {"_"}

lower_char(c) == IF c \in UpperLetters THEN LOWER[c] ELSE c
upper_char(c) == IF c \in LowerLetters
                 THEN CHOOSE u \in UpperLetters : LOWER[u] = c
                 ELSE c

\* str.lower() and str.upper().
RECURSIVE lower(_)
lower(s) == IF s = <<>> THEN <<>> ELSE <<lower_char(Head(s))>> \o lower(Tail(s))

RECURSIVE upper(_)
upper(s) == IF s = <<>> THEN <<>> ELSE <<upper_char(Head(s))>> \o upper(Tail(s))

\* s[i:j] of Python written with 1-based inclusive bounds: s[from..to].
Slice(s, from, to) == IF to >= from THEN SubSeq(s, from, to) ELSE <<>>

\* sub in s
Contains(s, sub) ==
    \E i \in 1..(Len(s) - Len(sub) + 1) : Slice(s, i, i + Len(sub) - 1) = sub

(***************************************************************************)
(* ProductMatcher._normalize_text                                          *)
(***************************************************************************)
normalize_char(char) ==
    IF char \in DOMAIN CYRILLIC_TO_LATIN THEN CYRILLIC_TO_LATIN[char] ELSE char

\* Lines 60-63: the characters are appended one by one.
RECURSIVE _normalize_text(_)
_normalize_text(text) ==
    IF text = <<>> THEN <<>>
    ELSE <<normalize_char(Head(text))>> \o _normalize_text(Tail(text))

(***************************************************************************)
(* Regular expressions (module re).                                        *)
(*                                                                         *)
(* A pattern is a sequence of tokens:                                      *)
(*   a letter, a digit, " "   the character itself                         *)
(*   "U+20AC"                 the euro sign, itself                        *)
(*   "."                      any character but newline                    *)
(*   "\\b"                    the word boundary assertion \b               *)
(*   "\\s*"                   \s* : whitespace, greedy                     *)
(*   "\\.", "\\(", "\\$",     an escaped character: the character itself   *)
(*   "\\{4294967296\\}"                                                    *)
(*   "{price}"                the numeric sub-pattern, a capturing group   *)
(*   "("                      opens a group; no token closes one, so the   *)
(*                            pattern does not compile (re.error)          *)
(*   "{4294967296}"           a repetition count of 2^32 >= MAXREPEAT: the *)
(*                            parser raises OverflowError, which is not a  *)
(*                            subclass of re.error                         *)
(***************************************************************************)
OVERFLOW_REPEAT == "{4294967296}"

\* re.escape on one token.
re_escape_char(c) ==
    CASE c = "." -> "\\."
      [] c = "(" -> "\\("
      [] c = "$" -> "\\$"
      [] c = OVERFLOW_REPEAT -> "\\{4294967296\\}"
      [] OTHER -> c

re_escape(s) == [i \in 1..Len(s) |-> re_escape_char(s[i])]

\* The character an escaped token stands for.
Unescaped(tok) ==
    CASE tok = "\\." -> "."
      [] tok = "\\(" -> "("
      [] tok = "\\$" -> "$"
      [] tok = "\\{4294967296\\}" -> OVERFLOW_REPEAT
      [] OTHER -> tok

\* Outcome of compiling a pattern: the parser meets the repetition count
\* while it reads the pattern, the unterminated group when it reaches the end.
re_compile(pattern) ==
    IF \E i \in 1..Len(pattern) : pattern[i] = OVERFLOW_REPEAT THEN "OverflowError"
    ELSE IF \E i \in 1..Len(pattern) : pattern[i] = "(" THEN "re.error"
    ELSE "ok"

AllDigits(text, from, to) ==
    /\ to <= Len(text)
    /\ \A i \in from..to : text[i] \in Digits

\* \b at position pos (between text[pos-1] and text[pos]).
WordBoundary(text, pos) ==
    LET before == pos > 1 /\ pos - 1 <= Len(text) /\ IsWordChar(text[pos - 1])
        after == pos >= 1 /\ pos <= Len(text) /\ IsWordChar(text[pos])
    IN before # after

\* (?:[.,]\d{1,2})? from position q: the positions after it, in the order the
\* backtracking matcher tries them.
OptDecimalEnds(text, q) ==
    (IF q <= Len(text) /\ text[q] \in {".", ","}
     THEN (IF AllDigits(text, q + 1, q + 2) THEN <<q + 3>> ELSE <<>>)
          \o (IF AllDigits(text, q + 1, q + 1) THEN <<q + 2>> ELSE <<>>)
     ELSE <<>>)
    \o <<q>>

\* (?:[,\s]\d{3})*(?:[.,]\d{1,2})? from position q.
RECURSIVE GroupedEnds(_, _)
GroupedEnds(text, q) ==
    (IF q <= Len(text) /\ text[q] \in ({","} \cup Whitespace) /\ AllDigits(text, q + 1, q + 3)
     THEN GroupedEnds(text, q + 4)
     ELSE <<>>)
    \o OptDecimalEnds(text, q)

\* The default numeric sub-pattern (\d{1,4}(?:[,\s]\d{3})*(?:[.,]\d{1,2})?)
\* from position pos: the positions after the number, in the order tried.
PriceNumberEnds(text, pos) ==
    LET From(n) == IF AllDigits(text, pos, pos + n - 1) THEN GroupedEnds(text, pos + n) ELSE <<>>
    IN From(4) \o From(3) \o From(2) \o From(1)

\* Length of the whitespace run that starts at pos.
RECURSIVE SpaceRun(_, _)
SpaceRun(text, pos) ==
    IF pos <= Len(text) /\ text[pos] \in Whitespace THEN 1 + SpaceRun(text, pos + 1) ELSE 0

\* The positions after one token matched at pos, in the order tried.
TokenEnds(tok, text, pos, ignorecase) ==
    CASE tok = "\\b" -> IF WordBoundary(text, pos) THEN <<pos>> ELSE <<>>
      [] tok = "\\s*" -> LET n == SpaceRun(text, pos) IN [i \in 1..(n + 1) |-> pos + n + 1 - i]
      [] tok = "{price}" -> PriceNumberEnds(text, pos)
      [] tok = "." -> IF pos <= Len(text) /\ text[pos] # "\n" THEN <<pos + 1>> ELSE <<>>
      [] OTHER ->
            IF /\ pos <= Len(text)
               /\ \/ text[pos] = Unescaped(tok)
                  \/ ignorecase /\ lower_char(text[pos]) = lower_char(Unescaped(tok))
            THEN <<pos + 1>> ELSE <<>>

\* The matches of pattern[k..] at pos, in the order tried; g is group 1 so far.
RECURSIVE MatchesFrom(_, _, _, _, _, _), MatchesVia(_, _, _, _, _, _, _, _)
MatchesFrom(pattern, k, text, pos, g, ignorecase) ==
    IF k > Len(pattern)
    THEN <<[end |-> pos, group1 |-> g]>>
    ELSE MatchesVia(pattern, k, text, pos, g, ignorecase,
                    TokenEnds(pattern[k], text, pos, ignorecase), 1)

MatchesVia(pattern, k, text, pos, g, ignorecase, ends, j) ==
    IF j > Len(ends)
    THEN <<>>
    ELSE LET g2 == IF pattern[k] = "{price}" /\ g = None
                   THEN Some(Slice(text, pos, ends[j] - 1))
                   ELSE g
         IN MatchesFrom(pattern, k + 1, text, ends[j], g2, ignorecase)
            \o MatchesVia(pattern, k, text, pos, g, ignorecase, ends, j + 1)

\* re.search(pattern, text) for a pattern that compiles: None, or the first
\* match: [start, end) of group 0 and the text of group 1 (None if the
\* pattern has no group 1).
RECURSIVE SearchFrom(_, _, _, _)
SearchFrom(pattern, text, start, ignorecase) ==
    IF start > Len(text) + 1
    THEN None
    ELSE With(MatchesFrom(pattern, 1, text, start, None, ignorecase),
              LAMBDA ms :
                  IF ms # <<>>
                  THEN Some([start |-> start, end |-> ms[1].end, group1 |-> ms[1].group1])
                  ELSE SearchFrom(pattern, text, start + 1, ignorecase))

re_search(pattern, text, ignorecase) == SearchFrom(pattern, text, 1, ignorecase)

(***************************************************************************)
(* ProductMatcher._match_keyword                                           *)
(***************************************************************************)
\* As keyword_normalized, without the look-alike table of line 153.
keyword_normalized_unmapped(kw) == IF case_sensitive THEN kw ELSE lower(kw)

\* Lines 153-154: the keyword as it is compared.
keyword_normalized(kw) ==
    IF case_sensitive THEN _normalize_text(kw) ELSE lower(_normalize_text(kw))

\* Lines 159-162: the pattern handed to re.search.
keyword_pattern(kw) ==
    IF whole_word THEN <<"\\b">> \o keyword_normalized(kw) \o <<"\\b">> ELSE keyword_normalized(kw)

\* Lines 169-175: simple string matching.
simple_match(text, kw) ==
    IF whole_word
    THEN re_search(<<"\\b">> \o re_escape(keyword_normalized(kw)) \o <<"\\b">>, text, FALSE) # None
    ELSE Contains(text, keyword_normalized(kw))

\* An exception escapes: re.search raised something that is not re.error.
_match_keyword_raises(text, kw) ==
    regex_enabled /\ re_compile(keyword_pattern(kw)) = "OverflowError"

_match_keyword(text, kw) ==
    IF regex_enabled /\ re_compile(keyword_pattern(kw)) = "ok"
    THEN re_search(keyword_pattern(kw), text, FALSE) # None
    ELSE simple_match(text, kw)

\* Lines 97-98 of _match_product: the text the keywords are tested against.
match_text(msg) ==
    IF case_sensitive THEN _normalize_text(msg) ELSE lower(_normalize_text(msg))

(***************************************************************************)
(* ProductMatcher._parse_price_string                                      *)
(***************************************************************************)
\* str.strip()
RECURSIVE lstrip(_)
lstrip(s) == IF s # <<>> /\ Head(s) \in Whitespace THEN lstrip(Tail(s)) ELSE s

RECURSIVE rstrip(_)
rstrip(s) == IF s # <<>> /\ s[Len(s)] \in Whitespace THEN rstrip(SubSeq(s, 1, Len(s) - 1)) ELSE s

strip(s) == rstrip(lstrip(s))

\* str.rfind(c): the 0-based index of the last c in s, -1 when there is none.
rfind(s, c) ==
    IF \E i \in 1..Len(s) : s[i] = c
    THEN (CHOOSE i \in 1..Len(s) : s[i] = c /\ \A j \in (i + 1)..Len(s) : s[j] # c) - 1
    ELSE -1

\* s[from:] for a 0-based index from.
SliceFrom(s, from) == Slice(s, from + 1, Len(s))

\* s[:to] for a 0-based index to.
SliceTo(s, to) == Slice(s, 1, to)

\* str.isdigit()
isdigit(s) == s # <<>> /\ \A i \in 1..Len(s) : s[i] \in Digits

\* s.replace(c, '') for every c in chars
RECURSIVE Without(_, _)
Without(s, chars) ==
    IF s = <<>> THEN <<>>
    ELSE IF Head(s) \in chars THEN Without(Tail(s), chars)
    ELSE <<Head(s)>> \o Without(Tail(s), chars)

\* Line 296 and line 302: the characters removed as separators.
Separators == {",", ".", " ", "U+00A0"}

DigitValue(c) ==
    CASE c = "0" -> 0 [] c = "1" -> 1 [] c = "2" -> 2 [] c = "3" -> 3 [] c = "4" -> 4
      [] c = "5" -> 5 [] c = "6" -> 6 [] c = "7" -> 7 [] c = "8" -> 8 [] c = "9" -> 9

\* The number a run of digits denotes; 0 for the empty run.
RECURSIVE DigitsValue(_)
DigitsValue(s) ==
    IF s = <<>> THEN 0 ELSE 10 * DigitsValue(SubSeq(s, 1, Len(s) - 1)) + DigitValue(s[Len(s)])

\* float(s) for a string of digits, '.', ',' and whitespace: None when float
\* raises ValueError, else the value in hundredths.  float accepts whitespace
\* around the number, digits with at most one '.', and at least one digit.
\* _parse_price_string passes at most two fractional digits.
float(s) ==
    LET t == strip(s)
        dot == rfind(t, ".")
        int_digits == IF dot = -1 THEN t ELSE SliceTo(t, dot)
        frac_digits == IF dot = -1 THEN <<>> ELSE SliceFrom(t, dot + 1)
        IsDigitRun(d) == \A i \in 1..Len(d) : d[i] \in Digits
    IN IF /\ IsDigitRun(int_digits)
          /\ IsDigitRun(frac_digits)
          /\ Len(int_digits) + Len(frac_digits) >= 1
       THEN Some(100 * DigitsValue(int_digits)
                 + (CASE Len(frac_digits) = 0 -> 0
                      [] Len(frac_digits) = 1 -> 10 * DigitsValue(frac_digits)
                      [] OTHER -> DigitsValue(SubSeq(frac_digits, 1, 2))))
       ELSE None

\* Lines 279-288: the 0-based position of the decimal separator, -1 when
\* there is none.
decimal_pos(cleaned) ==
    LET last_dot_pos == rfind(cleaned, ".")
        last_comma_pos == rfind(cleaned, ",")
        after_dot == SliceFrom(cleaned, last_dot_pos + 1)
        after_comma == SliceFrom(cleaned, last_comma_pos + 1)
    IN IF last_dot_pos > last_comma_pos
       THEN (IF 1 <= Len(after_dot) /\ Len(after_dot) <= 2 /\ isdigit(after_dot)
             THEN last_dot_pos ELSE -1)
       ELSE IF last_comma_pos > last_dot_pos
       THEN (IF 1 <= Len(after_comma) /\ Len(after_comma) <= 2 /\ isdigit(after_comma)
             THEN last_comma_pos ELSE -1)
       ELSE -1

\* None, or the price in hundredths.
_parse_price_string(price_str) ==
    LET cleaned == strip(price_str)
        pos == decimal_pos(cleaned)
    IN IF pos > 0
       THEN float(Without(SliceTo(cleaned, pos), Separators) \o <<".">> \o SliceFrom(cleaned, pos + 1))
       ELSE float(Without(cleaned, Separators))

(***************************************************************************)
(* ProductMatcher._detect_currency                                         *)
(***************************************************************************)
EURO == <<"U+20AC">>
DOLLAR == <<"$">>

\* As _detect_currency, but the dollar group is tested first.
_detect_currency_dollar_first(matched_text) ==
    IF \/ Contains(matched_text, DOLLAR)
       \/ Contains(upper(matched_text), <<"U", "S", "D">>)
       \/ Contains(lower(matched_text), <<"d", "o", "l", "l", "a", "r">>)
       \/ Contains(lower(matched_text),
                   <<"U+0434", "U+043E", "U+043B", "U+043B", "U+0430", "U+0440">>)
    THEN DOLLAR
    ELSE IF \/ Contains(matched_text, EURO)
            \/ Contains(upper(matched_text), <<"E", "U", "R">>)
            \/ Contains(lower(matched_text), <<"U+0435", "U+0432", "U+0440", "U+043E">>)
    THEN EURO
    ELSE <<>>

_detect_currency(matched_text) ==
    IF \/ Contains(matched_text, EURO)
       \/ Contains(upper(matched_text), <<"E", "U", "R">>)
       \/ Contains(lower(matched_text), <<"U+0435", "U+0432", "U+0440", "U+043E">>)
    THEN EURO
    ELSE IF \/ Contains(matched_text, DOLLAR)
            \/ Contains(upper(matched_text), <<"U", "S", "D">>)
            \/ Contains(lower(matched_text), <<"d", "o", "l", "l", "a", "r">>)
            \/ Contains(lower(matched_text),
                        <<"U+0434", "U+043E", "U+043B", "U+043B", "U+0430", "U+0440">>)
    THEN DOLLAR
    ELSE <<>>

(***************************************************************************)
(* ProductMatcher._extract_price                                           *)
(*                                                                         *)
(* A price pattern is a record [pattern, min_value]: pattern is the        *)
(* template as a sequence of tokens, <<>> when the entry has no template;  *)
(* min_value is None when the entry has none, else Some(hundredths).  The  *)
(* token "{price}" stands for the placeholder replaced by the default      *)
(* price_number_format regex of line 44.                                   *)
(***************************************************************************)
OrElse(opt, default) == IF opt = None THEN default ELSE opt[1]

\* Lines 209-229 for a match: the price it yields, None when the loop goes on
\* to the next pattern.
match_price(pattern_config, text, match) ==
    IF match.group1 = None THEN None      \* IndexError, line 231
    ELSE With(_parse_price_string(match.group1[1]),
              LAMBDA price :
                  IF price = None THEN None
                  ELSE IF price[1] >= OrElse(pattern_config.min_value, 0)
                  THEN Some([value |-> price[1],
                             currency |-> _detect_currency(
                                 Slice(text, match.start, match.end - 1))])
                  ELSE None)

\* Lines 206-229 for one pattern that compiles.
pattern_price(pattern_config, text) ==
    With(re_search(pattern_config.pattern, text, TRUE),
         LAMBDA match : IF match = None THEN None
                        ELSE match_price(pattern_config, text, match[1]))

\* As extract_from, but a value below min_value ends the search.
RECURSIVE extract_from_stop_below_min(_, _, _)
extract_from_stop_below_min(patterns, k, text) ==
    IF k > Len(patterns) THEN [raises |-> FALSE, info |-> None]
    ELSE IF patterns[k].pattern = <<>> THEN extract_from_stop_below_min(patterns, k + 1, text)
    ELSE IF re_compile(patterns[k].pattern) = "OverflowError"
    THEN [raises |-> TRUE, info |-> None]
    ELSE IF re_compile(patterns[k].pattern) = "re.error"
    THEN extract_from_stop_below_min(patterns, k + 1, text)
    ELSE With(re_search(patterns[k].pattern, text, TRUE),
              LAMBDA match :
                  IF match = None \/ match[1].group1 = None
                  THEN extract_from_stop_below_min(patterns, k + 1, text)
                  ELSE IF _parse_price_string(match[1].group1[1]) = None
                  THEN extract_from_stop_below_min(patterns, k + 1, text)
                  ELSE [raises |-> FALSE, info |-> match_price(patterns[k], text, match[1])])

\* The loop of lines 197-236 from the k-th pattern on: whether an exception
\* escapes, and the value returned when none does.
RECURSIVE extract_from(_, _, _)
extract_from(patterns, k, text) ==
    IF k > Len(patterns) THEN [raises |-> FALSE, info |-> None]
    ELSE IF patterns[k].pattern = <<>> THEN extract_from(patterns, k + 1, text)
    ELSE IF re_compile(patterns[k].pattern) = "OverflowError"
    THEN [raises |-> TRUE, info |-> None]
    ELSE IF re_compile(patterns[k].pattern) = "re.error" THEN extract_from(patterns, k + 1, text)
    ELSE With(pattern_price(patterns[k], text),
              LAMBDA price :
                  IF price # None THEN [raises |-> FALSE, info |-> price]
                  ELSE extract_from(patterns, k + 1, text))

_extract_price_raises(text) == extract_from(price_patterns, 1, text).raises

_extract_price(text) == extract_from(price_patterns, 1, text).info

(***************************************************************************)
(* ProductMatcher._match_product                                           *)
(*                                                                         *)
(* A product is a record [name, keywords, exclude_keywords, price_range,   *)
(* notify].  price_range is None when the product has none, else           *)
(* Some([min, max]) where min and max are None when the key is absent,     *)
(* else Some(hundredths).  The name is kept as one TLA+ string.            *)
(***************************************************************************)
\* As matching_keywords, but the loop stops at the first keyword that matches.
RECURSIVE matching_keywords_first_only(_, _)
matching_keywords_first_only(keywords, text) ==
    IF keywords = <<>> THEN <<>>
    ELSE IF _match_keyword(text, Head(keywords)) THEN <<Head(keywords)>>
    ELSE matching_keywords_first_only(Tail(keywords), text)

\* Lines 101-104: the keywords that match, in the order of the list.
RECURSIVE matching_keywords(_, _)
matching_keywords(keywords, text) ==
    IF keywords = <<>> THEN <<>>
    ELSE (IF _match_keyword(text, Head(keywords)) THEN <<Head(keywords)>> ELSE <<>>)
         \o matching_keywords(Tail(keywords), text)

\* As exclude_scan, but only the first exclusion keyword is tested.
exclude_scan_first_only(exclude_keywords, text) ==
    IF exclude_keywords = <<>> THEN "clear"
    ELSE IF _match_keyword_raises(text, Head(exclude_keywords)) THEN "raises"
    ELSE IF _match_keyword(text, Head(exclude_keywords)) THEN "excluded"
    ELSE "clear"

\* Lines 111-114: the loop over the exclusion keywords stops at the first
\* one that matches: "excluded", "raises" or "clear".
RECURSIVE exclude_scan(_, _)
exclude_scan(exclude_keywords, text) ==
    IF exclude_keywords = <<>> THEN "clear"
    ELSE IF _match_keyword_raises(text, Head(exclude_keywords)) THEN "raises"
    ELSE IF _match_keyword(text, Head(exclude_keywords)) THEN "excluded"
    ELSE exclude_scan(Tail(exclude_keywords), text)

\* Line 120, "if price_range:": None and the empty dict are false.
has_price_range(product) ==
    /\ product.price_range # None
    /\ ~ (product.price_range[1].min = None /\ product.price_range[1].max = None)

\* As in_price_range, with exclusive bounds.
in_price_range_strict(price_range, price) ==
    /\ OrElse(price_range.min, 0) < price
    /\ price_range.max = None \/ price < price_range.max[1]

\* Lines 125-127: min_price <= price_match <= max_price.
in_price_range(price_range, price) ==
    /\ OrElse(price_range.min, 0) <= price
    /\ price_range.max = None \/ price <= price_range.max[1]

\* Lines 133-140: the match information.
match_info(product, matched_keywords, price_info_) ==
    [product_name |-> product.name,
     matched_keywords |-> matched_keywords,
     price |-> IF price_info_ = None THEN None ELSE Some(price_info_[1].value),
     currency |-> IF price_info_ = None THEN None ELSE Some(price_info_[1].currency),
     notify |-> product.notify]

\* Lines 116-140, reached with matched keywords and no exclusion.
price_check(msg, product, matched_keywords) ==
    IF ~ has_price_range(product)
    THEN [raises |-> FALSE, info |-> Some(match_info(product, matched_keywords, None))]
    ELSE With(extract_from(price_patterns, 1, msg),
              LAMBDA extracted :
                  IF extracted.raises THEN [raises |-> TRUE, info |-> None]
                  ELSE IF /\ extracted.info # None
                          /\ ~ in_price_range(product.price_range[1], extracted.info[1].value)
                  THEN [raises |-> FALSE, info |-> None]
                  ELSE [raises |-> FALSE,
                        info |-> Some(match_info(product, matched_keywords, extracted.info))])

\* Lines 100-140 on the text of lines 97-98.
match_on_text(msg, product, text) ==
    IF \E i \in 1..Len(product.keywords) : _match_keyword_raises(text, product.keywords[i])
    THEN [raises |-> TRUE, info |-> None]
    ELSE With(matching_keywords(product.keywords, text),
              LAMBDA matched_keywords :
                  IF matched_keywords = <<>> THEN [raises |-> FALSE, info |-> None]
                  ELSE With(exclude_scan(product.exclude_keywords, text),
                            LAMBDA excluded :
                                IF excluded = "raises" THEN [raises |-> TRUE, info |-> None]
                                ELSE IF excluded = "excluded"
                                THEN [raises |-> FALSE, info |-> None]
                                ELSE price_check(msg, product, matched_keywords)))

\* _match_product: whether an exception escapes, and the value returned when
\* none does: None, or Some(match_info).
match_product_outcome(msg, product) ==
    With(match_text(msg), LAMBDA text : match_on_text(msg, product, text))

_match_product_raises(msg, product) == match_product_outcome(msg, product).raises

_match_product(msg, product) == match_product_outcome(msg, product).info

(***************************************************************************)
(* ProductMatcher.match_message                                            *)
(***************************************************************************)
\* As match_from, but a match is put in front of the list.
RECURSIVE match_from_reversed(_, _, _)
match_from_reversed(catalog, k, msg) ==
    IF k > Len(catalog) THEN [raises |-> FALSE, matches |-> <<>>]
    ELSE With(match_product_outcome(msg, catalog[k]),
              LAMBDA outcome :
                  IF outcome.raises THEN [raises |-> TRUE, matches |-> <<>>]
                  ELSE With(match_from_reversed(catalog, k + 1, msg),
                            LAMBDA rest :
                                IF rest.raises THEN rest
                                ELSE [raises |-> FALSE,
                                      matches |-> rest.matches \o outcome.info]))

\* Lines 79-82 from the k-th product on: whether an exception escapes, and
\* the matches appended when none does.
RECURSIVE match_from(_, _, _)
match_from(catalog, k, msg) ==
    IF k > Len(catalog) THEN [raises |-> FALSE, matches |-> <<>>]
    ELSE With(match_product_outcome(msg, catalog[k]),
              LAMBDA outcome :
                  IF outcome.raises THEN [raises |-> TRUE, matches |-> <<>>]
                  ELSE With(match_from(catalog, k + 1, msg),
                            LAMBDA rest :
                                IF rest.raises THEN rest
                                ELSE [raises |-> FALSE,
                                      matches |-> outcome.info \o rest.matches]))

\* match_message: line 74 and the loop.
match_message_outcome(msg) ==
    IF msg = <<>> THEN [raises |-> FALSE, matches |-> <<>>] ELSE match_from(products, 1, msg)

match_message_raises(msg) == match_message_outcome(msg).raises

match_message(msg) == match_message_outcome(msg).matches

(***************************************************************************)
(* Specification SpecNorm: _normalize_text applied to every string over    *)
(* NormChars of length at most NormMaxLen.                                 *)
(***************************************************************************)
\* Every key and every value of the look-alike table, and characters outside it.
NormChars ==
    DOMAIN CYRILLIC_TO_LATIN \cup {CYRILLIC_TO_LATIN[c] : c \in DOMAIN CYRILLIC_TO_LATIN}
        \cup {"b", "U+0432", "U+0431", " ", "1", "$"}

IdleConfig ==
    /\ case_sensitive = FALSE
    /\ whole_word = FALSE
    /\ regex_enabled = TRUE
    /\ products = <<>>
    /\ price_patterns = <<>>

IdleOutputs ==
    /\ normalized = <<>>
    /\ kw_result = FALSE
    /\ price_info = None
    /\ matched_products = <<>>
    /\ raised = "none"

\* No call of _parse_price_string or of match_message by a concurrent caller,
\* and a monitor that handles no message.
IdleMonitor ==
    /\ price_string = <<>>
    /\ parsed_price = None
    /\ calls = <<>>
    /\ max_age_days = None
    /\ save_matches = TRUE
    /\ telegram_enabled = TRUE
    /\ tasks = <<>>
    /\ matched_messages = <<>>
    /\ matches_file = <<>>
    /\ last_save = "none"

InitNorm ==
    /\ IdleConfig
    /\ IdleOutputs
    /\ IdleMonitor
    /\ message_text \in SeqsUpTo(NormChars, NormMaxLen)
    /\ keyword = <<>>
    /\ pc = "call"

Normalize ==
    /\ pc = "call"
    /\ normalized' = _normalize_text(message_text)
    /\ pc' = "normalized"
    /\ UNCHANGED <<case_sensitive, whole_word, regex_enabled, products, price_patterns,
                   message_text, keyword, kw_result, price_info, matched_products, raised>>
    /\ UNCHANGED monitor_vars

\* The caller normalizes the result once more.
NormalizeAgain ==
    /\ pc = "normalized"
    /\ normalized' = _normalize_text(normalized)
    /\ pc' = "renormalized"
    /\ UNCHANGED <<case_sensitive, whole_word, regex_enabled, products, price_patterns,
                   message_text, keyword, kw_result, price_info, matched_products, raised>>
    /\ UNCHANGED monitor_vars

NextNorm == Normalize \/ NormalizeAgain

SpecNorm == InitNorm /\ [][NextNorm]_vars

\* C10: normalization is idempotent, keeps the length, leaves the characters
\* outside the look-alike table where they are, and its output holds no key
\* of the look-alike table.
C10_NormalizeIdempotent ==
    /\ pc = "normalized" =>
        /\ Len(normalized) = Len(message_text)
        /\ \A i \in 1..Len(normalized) : normalized[i] \notin DOMAIN CYRILLIC_TO_LATIN
        /\ \A i \in 1..Len(message_text) :
              message_text[i] \notin DOMAIN CYRILLIC_TO_LATIN => normalized[i] = message_text[i]
    /\ pc = "renormalized" =>
        /\ normalized = _normalize_text(message_text)
        /\ Len(normalized) = Len(message_text)

\* A string holding a look-alike and a character outside the table was normalized twice.
C10_Witness ==
    /\ pc = "renormalized"
    /\ message_text = <<"U+0410", "U+0432">>
    /\ normalized = <<"A", "U+0432">>

(***************************************************************************)
(* Specification SpecKw: one keyword test of _match_product, for every     *)
(* setting, every message over KwTextChars and every keyword over KwTokens.*)
(***************************************************************************)
KwTextChars == {"a", "b", "U+0412", "U+0432", " ", "("}
KwTokens == {"a", "A", "b", "U+0430", ".", "(", OVERFLOW_REPEAT}

InitKw ==
    /\ case_sensitive \in BOOLEAN
    /\ whole_word \in BOOLEAN
    /\ regex_enabled \in BOOLEAN
    /\ products = <<>>
    /\ price_patterns = <<>>
    /\ IdleOutputs
    /\ IdleMonitor
    /\ message_text \in SeqsUpTo(KwTextChars, KwTextMaxLen)
    /\ keyword \in SeqsUpTo(KwTokens, KwMaxLen)
    /\ pc = "call"

\* _match_product lines 97-98 and the call of _match_keyword (103 or 112)
\* that returns.
MatchKeyword ==
    /\ pc = "call"
    /\ ~ _match_keyword_raises(match_text(message_text), keyword)
    /\ kw_result' = _match_keyword(match_text(message_text), keyword)
    /\ pc' = "matched"
    /\ UNCHANGED <<case_sensitive, whole_word, regex_enabled, products, price_patterns,
                   message_text, keyword, normalized, price_info, matched_products, raised>>
    /\ UNCHANGED monitor_vars

\* The same call when an exception escapes _match_keyword.
MatchKeywordRaises ==
    /\ pc = "call"
    /\ _match_keyword_raises(match_text(message_text), keyword)
    /\ raised' = "OverflowError"
    /\ pc' = "raised"
    /\ UNCHANGED <<case_sensitive, whole_word, regex_enabled, products, price_patterns,
                   message_text, keyword, normalized, kw_result, price_info, matched_products>>
    /\ UNCHANGED monitor_vars

NextKw == MatchKeyword \/ MatchKeywordRaises

SpecKw == InitKw /\ [][NextKw]_vars

\* The literal rule of C7, stated on the strings: an occurrence of kw in
\* text, delimited by word boundaries when whole_word is set.
LiteralRule(text, kw) ==
    \E i \in 1..(Len(text) - Len(kw) + 1) :
        /\ Slice(text, i, i + Len(kw) - 1) = kw
        /\ whole_word => WordBoundary(text, i) /\ WordBoundary(text, i + Len(kw))

\* C7: a keyword test never raises, and a keyword that is not evaluated as a
\* regular expression (pattern matching disabled, or the pattern does not
\* compile) gets the literal result.
C7_MalformedKeywordFallsBack ==
    /\ pc # "raised"
    /\ (pc = "matched" /\ (~regex_enabled \/ re_compile(keyword_pattern(keyword)) # "ok")) =>
          kw_result = LiteralRule(match_text(message_text), keyword_normalized(keyword))

\* The keyword test of _match_product on a message and a keyword.
KeywordTest(text, kw) == _match_keyword(match_text(text), kw)

\* C11: with case_sensitive false the keyword test gives the same boolean
\* for (t, k), for (upper(t), upper(k)) and for (lower(t), lower(k)).
C11_UniformCasingChangesNothing ==
    (pc = "matched" /\ ~ case_sensitive) =>
        /\ kw_result = KeywordTest(upper(message_text), upper(keyword))
        /\ kw_result = KeywordTest(lower(message_text), lower(keyword))

(***************************************************************************)
(* Specification SpecObf: the keyword test on messages and keywords        *)
(* spelled with look-alike characters and their canonical counterparts.    *)
(***************************************************************************)
ObfTextChars == {"a", "U+0430", "U+0412", "b", " "}
ObfTokens == {"a", "U+0430", "B", "U+0412"}

InitObf ==
    /\ case_sensitive \in BOOLEAN
    /\ whole_word \in BOOLEAN
    /\ regex_enabled \in BOOLEAN
    /\ products = <<>>
    /\ price_patterns = <<>>
    /\ IdleOutputs
    /\ IdleMonitor
    /\ message_text \in SeqsUpTo(ObfTextChars, ObfTextMaxLen)
    /\ keyword \in SeqsUpTo(ObfTokens, ObfKwMaxLen)
    /\ pc = "call"

\* No keyword over ObfTokens makes re raise.
NextObf == MatchKeyword

SpecObf == InitObf /\ [][NextObf]_vars

\* The look-alike character of a canonical one, the character itself when it
\* has none.
obfuscate_char(c) ==
    IF \E k \in DOMAIN CYRILLIC_TO_LATIN : CYRILLIC_TO_LATIN[k] = c
    THEN CHOOSE k \in DOMAIN CYRILLIC_TO_LATIN : CYRILLIC_TO_LATIN[k] = c
    ELSE c

obfuscate(s) == [i \in 1..Len(s) |-> obfuscate_char(s[i])]

\* C12: the keyword test on (t, k) equals the test on (normalize(t),
\* normalize(k)), and the test on t spelled with look-alike characters in
\* place of their canonical counterparts equals the test on t.
C12_ObfuscationChangesNothing ==
    pc = "matched" =>
        /\ kw_result = KeywordTest(_normalize_text(message_text), _normalize_text(keyword))
        /\ kw_result = KeywordTest(obfuscate(message_text), keyword)

\* A message spelled with look-alike characters matched the plain keyword.
C12_Witness ==
    /\ pc = "matched"
    /\ case_sensitive
    /\ message_text = <<"U+0430", "U+0412">>
    /\ keyword = <<"a", "B">>
    /\ kw_result = TRUE

(***************************************************************************)
(* Specification SpecPrice: _extract_price on every text of PriceTexts     *)
(* under every list of at most MaxPricePatterns patterns of PricePatterns. *)
(***************************************************************************)
PriceChars == {"1", "5", ",", "$", "U+20AC"}

\* Every short text, and longer texts with grouped thousands, a decimal
\* part, a tab inside the number, and a separator before the currency sign.
PriceTexts ==
    SeqsUpTo(PriceChars, PriceTextMaxLen)
    \cup {<<"$", "2", "5", "0">>,
          <<"$", " ", "5", ".", "5", "0">>,
          <<"1", "\t", "2", "3", "4", " ", "U+20AC">>,
          <<"1", ",", "2", "3", "4", ".", "5", "6", "U+20AC">>,
          <<"1", ".", "2", "3", "4", ",", "5", "6", " ", "e", "u", "r">>,
          <<"$", "1", "5", "U+20AC">>,
          <<"$", "5", " ", "1", "5", "U+20AC">>}

Pattern(template, min_value) == [pattern |-> template, min_value |-> min_value]

\* The price patterns the lists are made of.  min_value is in hundredths.
PricePatterns ==
    {Pattern(<<"\\$", "\\s*", "{price}">>, None),            \* \$\s*{price}
     Pattern(<<"{price}", "\\s*", "U+20AC">>, None),         \* {price}\s*€
     Pattern(<<"{price}">>, Some(500)),
     Pattern(<<>>, None),                                    \* no template
     Pattern(<<"\\$">>, None),                               \* no capturing group
     Pattern(<<"(", "{price}">>, None),                      \* unterminated group
     Pattern(<<"{price}", OVERFLOW_REPEAT>>, None)}          \* repetition count too large

\* The lists of at most MaxPricePatterns patterns, each listed once.
PricePatternLists ==
    {patterns \in SeqsUpTo(PricePatterns, MaxPricePatterns) :
        \A i, j \in 1..Len(patterns) : patterns[i] = patterns[j] => i = j}

InitPrice ==
    /\ case_sensitive = FALSE
    /\ whole_word = FALSE
    /\ regex_enabled = TRUE
    /\ products = <<>>
    /\ price_patterns \in PricePatternLists
    /\ IdleOutputs
    /\ IdleMonitor
    /\ message_text \in PriceTexts
    /\ keyword = <<>>
    /\ pc = "call"

\* _extract_price returns.
ExtractPrice ==
    /\ pc = "call"
    /\ ~ _extract_price_raises(message_text)
    /\ price_info' = _extract_price(message_text)
    /\ pc' = "extracted"
    /\ UNCHANGED <<case_sensitive, whole_word, regex_enabled, products, price_patterns,
                   message_text, keyword, normalized, kw_result, matched_products, raised>>
    /\ UNCHANGED monitor_vars

\* An exception escapes _extract_price.
ExtractPriceRaises ==
    /\ pc = "call"
    /\ _extract_price_raises(message_text)
    /\ raised' = "OverflowError"
    /\ pc' = "raised"
    /\ UNCHANGED <<case_sensitive, whole_word, regex_enabled, products, price_patterns,
                   message_text, keyword, normalized, kw_result, price_info, matched_products>>
    /\ UNCHANGED monitor_vars

NextPrice == ExtractPrice \/ ExtractPriceRaises

SpecPrice == InitPrice /\ [][NextPrice]_vars

\* The pattern has a template that compiles, its first match in the text has
\* a group 1 that parses to a number, and the number is at least min_value.
Qualifying(pattern_config, text) ==
    /\ pattern_config.pattern # <<>>
    /\ re_compile(pattern_config.pattern) = "ok"
    /\ LET match == re_search(pattern_config.pattern, text, TRUE)
       IN /\ match # None
          /\ match[1].group1 # None
          /\ _parse_price_string(match[1].group1[1]) # None
          /\ _parse_price_string(match[1].group1[1])[1] >= OrElse(pattern_config.min_value, 0)

\* The value and currency a qualifying pattern gives.
QualifyingPrice(pattern_config, text) ==
    LET match == re_search(pattern_config.pattern, text, TRUE)[1]
    IN [value |-> _parse_price_string(match.group1[1])[1],
        currency |-> _detect_currency(Slice(text, match.start, match.end - 1))]

QualifyingAt == {k \in 1..Len(price_patterns) : Qualifying(price_patterns[k], message_text)}

Winner == CHOOSE k \in QualifyingAt : \A j \in QualifyingAt : k <= j

\* C6: when _extract_price returns, it returns the value and currency of the
\* earliest qualifying pattern, None if there is none; a pattern below its
\* min_value does not end the search; the patterns after the winner are not
\* evaluated, so one of them that would raise does not; and of two
\* qualifying patterns with different values the first listed wins in
\* either order.
C6_FirstQualifyingPatternWins ==
    /\ pc = "extracted" =>
          price_info = (IF QualifyingAt = {} THEN None
                        ELSE Some(QualifyingPrice(price_patterns[Winner], message_text)))
    /\ pc = "raised" =>
          \E k \in 1..Len(price_patterns) :
              /\ re_compile(price_patterns[k].pattern) = "OverflowError"
              /\ \A j \in QualifyingAt : k < j
    /\ (pc = "extracted" /\ Len(price_patterns) = 2 /\ QualifyingAt = {1, 2}) =>
          extract_from(<<price_patterns[2], price_patterns[1]>>, 1, message_text).info
              = Some(QualifyingPrice(price_patterns[2], message_text))

\* Two patterns qualify with different values and the first one won.
C6_Witness ==
    /\ pc = "extracted"
    /\ Len(price_patterns) = 2
    /\ QualifyingAt = {1, 2}
    /\ QualifyingPrice(price_patterns[1], message_text).value
          # QualifyingPrice(price_patterns[2], message_text).value
    /\ price_info = Some(QualifyingPrice(price_patterns[1], message_text))

RemoveAt(s, k) == SubSeq(s, 1, k - 1) \o SubSeq(s, k + 1, Len(s))

\* The pattern has no template, does not compile, has no capturing group, or
\* captures a text that does not parse to a number.
Skipped(pattern_config, text) ==
    \/ pattern_config.pattern = <<>>
    \/ re_compile(pattern_config.pattern) # "ok"
    \/ \A i \in 1..Len(pattern_config.pattern) : pattern_config.pattern[i] # "{price}"
    \/ LET match == re_search(pattern_config.pattern, text, TRUE)
       IN /\ match # None
          /\ match[1].group1 # None
          /\ _parse_price_string(match[1].group1[1]) = None

\* The result of _extract_price is the one of the list without any pattern
\* that is skipped.
SkippedPatternsChangeNothing ==
    pc = "extracted" =>
        \A k \in 1..Len(price_patterns) :
            Skipped(price_patterns[k], message_text) =>
                /\ ~ extract_from(RemoveAt(price_patterns, k), 1, message_text).raises
                /\ price_info = extract_from(RemoveAt(price_patterns, k), 1, message_text).info

\* C8: _extract_price raises nothing, and a pattern that is malformed, has no
\* capturing group, has no template or captures an unparsable text is
\* skipped: the result is the one of the list without it.
C8_BadPricePatternSkipped ==
    /\ pc # "raised"
    /\ SkippedPatternsChangeNothing

(***************************************************************************)
(* Specification SpecCurrency: _extract_price on a price with a currency   *)
(* token, a near-miss or nothing on either side, under every list of at    *)
(* most MaxPricePatterns patterns of CurrencyPatterns.                     *)
(***************************************************************************)
CurrencyParts ==
    {<<>>,
     <<"$">>,
     <<"U+20AC">>,
     <<"U+20AC", " ", "$">>,
     <<"E", "U", "R">>,
     <<" ", "e", "u", "r">>,
     <<"U", "s", "d">>,
     <<"U+0435", "U+0432", "U+0440", "U+043E">>,             \* евро
     <<"U+0415", "U+0432", "U+0440", "U+043E">>,             \* Евро
     <<"d", "o", "l", "l", "a", "r">>,
     <<"U+0414", "U+043E", "U+043B", "U+043B", "U+0430", "U+0440">>,   \* Доллар
     <<"e", "u">>,
     <<"u", "s", " ", "d">>}

CurrencyTexts == {before \o <<"5">> \o after : before, after \in CurrencyParts}

CurrencyPatterns ==
    {Pattern(<<"\\$", "\\s*", "{price}">>, None),                    \* \$\s*{price}
     Pattern(<<"{price}", "\\s*", "U+20AC">>, None),                 \* {price}\s*€
     Pattern(<<"{price}", "\\s*", "e", "u", "r">>, None),            \* {price}\s*eur
     Pattern(<<"{price}">>, None),
     Pattern(<<".", "{price}", ".">>, None),                         \* .{price}.
     Pattern(<<".", ".", ".", "{price}">>, None),                    \* ...{price}
     Pattern(<<"{price}", ".", ".", ".", ".", ".", ".">>, None)}     \* {price}......

CurrencyPatternLists ==
    {patterns \in SeqsUpTo(CurrencyPatterns, MaxPricePatterns) :
        \A i, j \in 1..Len(patterns) : patterns[i] = patterns[j] => i = j}

InitCurrency ==
    /\ case_sensitive = FALSE
    /\ whole_word = FALSE
    /\ regex_enabled = TRUE
    /\ products = <<>>
    /\ price_patterns \in CurrencyPatternLists
    /\ IdleOutputs
    /\ IdleMonitor
    /\ message_text \in CurrencyTexts
    /\ keyword = <<>>
    /\ pc = "call"

NextCurrency == ExtractPrice

SpecCurrency == InitCurrency /\ [][NextCurrency]_vars

\* The text contains the token, in any casing.
HasToken(text, token) == Contains(lower(text), lower(token))

EuroTokens ==
    {<<"U+20AC">>, <<"E", "U", "R">>, <<"U+0435", "U+0432", "U+0440", "U+043E">>}

DollarTokens ==
    {<<"$">>, <<"U", "S", "D">>, <<"d", "o", "l", "l", "a", "r">>,
     <<"U+0434", "U+043E", "U+043B", "U+043B", "U+0430", "U+0440">>}

\* The currency C14 gives a matched span.
CurrencyRule(span) ==
    IF \E token \in EuroTokens : HasToken(span, token) THEN <<"U+20AC">>
    ELSE IF \E token \in DollarTokens : HasToken(span, token) THEN <<"$">>
    ELSE <<>>

\* The span matched by the winning pattern.
WinningSpan ==
    LET match == re_search(price_patterns[Winner].pattern, message_text, TRUE)[1]
    IN Slice(message_text, match.start, match.end - 1)

\* C14: when _extract_price returns a price, its currency is the one the
\* span matched by the winning pattern gives: the euro sign if the span holds
\* a euro token in any casing, else the dollar sign if it holds a dollar
\* token, else the empty string; the text outside the span has no part in it.
C14_CurrencyFromMatchedSpan ==
    (pc = "extracted" /\ price_info # None) =>
        /\ QualifyingAt # {}
        /\ \A span \in {WinningSpan} : price_info[1].currency = CurrencyRule(span)

\* The span holds a dollar token and a euro token and the euro sign is
\* returned, while the message holds more than the span.
C14_Witness ==
    /\ pc = "extracted"
    /\ price_info # None
    /\ QualifyingAt # {}
    /\ \E token \in DollarTokens : HasToken(WinningSpan, token)
    /\ \E token \in EuroTokens : HasToken(WinningSpan, token)
    /\ price_info[1].currency = EURO
    /\ WinningSpan # message_text

(***************************************************************************)
(* Specification SpecParse: _parse_price_string on every string of length  *)
(* at most ParseMaxLen over ParseChars and on the strings of ParseExamples.*)
(***************************************************************************)
ParseChars == {"1", "5", ".", ",", " ", "U+00A0", "\t"}

ParseExamples ==
    {<<"1", ",", "2", "3", "4", ".", "5", "6">>,
     <<"1", ".", "2", "3", "4", ",", "5", "6">>,
     <<"1", "2", "3", "4", ",", "5", "6">>,
     <<"1", " ", "2", "3", "4", ".", "5", "6">>,
     <<"1", " ", "2", "3", "4">>,
     <<"1", "2", "3", "4">>,
     <<"1", "\t", "2", "3", "4">>}

InitParse ==
    /\ IdleConfig
    /\ IdleOutputs
    /\ message_text = <<>>
    /\ keyword = <<>>
    /\ pc = "call"
    /\ price_string \in SeqsUpTo(ParseChars, ParseMaxLen) \cup ParseExamples
    /\ parsed_price = None
    /\ calls = <<>>
    /\ max_age_days = None
    /\ save_matches = TRUE
    /\ telegram_enabled = TRUE
    /\ tasks = <<>>
    /\ matched_messages = <<>>
    /\ matches_file = <<>>
    /\ last_save = "none"

\* _parse_price_string returns; it lets no exception escape (line 306).
ParsePriceString ==
    /\ pc = "call"
    /\ parsed_price' = _parse_price_string(price_string)
    /\ pc' = "parsed"
    /\ UNCHANGED <<matcher_config, message_text, keyword, normalized, kw_result, price_info,
                   matched_products, raised>>
    /\ UNCHANGED <<price_string, calls, channel_vars>>

NextParse == ParsePriceString

SpecParse == InitParse /\ [][NextParse]_vars

\* The digits of a string, in order.
DigitsOf(s) == SelectSeq(s, LAMBDA c : c \in Digits)

\* The 1-based position of the last '.' or ',' of a string, 0 when it has none.
LastSeparator(s) ==
    IF \E i \in 1..Len(s) : s[i] \in {".", ","}
    THEN CHOOSE i \in 1..Len(s) : s[i] \in {".", ","} /\ \A j \in (i + 1)..Len(s) : s[j] \notin {".", ","}
    ELSE 0

\* The rightmost-separator rule of C13 on the trimmed string, in hundredths;
\* None for a string without a digit.
RightmostSeparatorRule(s) ==
    LET trimmed == strip(s)
        sep == LastSeparator(trimmed)
        after == SubSeq(trimmed, sep + 1, Len(trimmed))
        before == SubSeq(trimmed, 1, sep - 1)
        is_decimal == sep > 0 /\ Len(after) \in {1, 2} /\ DigitsOf(after) = after
    IN IF is_decimal
       THEN Some(100 * DigitsValue(DigitsOf(before))
                 + (IF Len(after) = 1 THEN 10 * DigitsValue(after) ELSE DigitsValue(after)))
       ELSE IF DigitsOf(trimmed) = <<>> THEN None
       ELSE Some(100 * DigitsValue(DigitsOf(trimmed)))

\* C13: _parse_price_string gives the value of the rightmost-separator rule
\* for every string of digits, '.', ',' and whitespace.
C13_RightmostSeparatorRule ==
    pc = "parsed" => parsed_price = RightmostSeparatorRule(price_string)

(***************************************************************************)
(* The configurations and the messages of specification Spec (defined    *)
(* with the monitor, below): the engine as the handler of a new message    *)
(* drives it.                                                              *)
(***************************************************************************)
Range(lo, hi) == Some([min |-> lo, max |-> hi])

Product(name, keywords, exclude_keywords, price_range, notify) ==
    [keywords |-> keywords, exclude_keywords |-> exclude_keywords,
     price_range |-> price_range, name |-> name, notify |-> notify]

\* The products catalogs are made of.  Ranges are in hundredths.
ProductSet ==
    {Product("plain", <<<<"a">>>>, <<>>, None, TRUE),
     Product("two", <<<<"a">>, <<"c">>, <<"b">>>>, <<>>, Range(Some(200), Some(400)), TRUE),
     Product("span", <<<<"a", " ", "b">>, <<"b">>>>, <<<<"c">>, <<"b">>>>, None, TRUE),
     Product("bad_regex", <<<<"a", "(">>, <<"A">>>>, <<<<"(", "b">>>>, Range(Some(200), None), TRUE),
     Product("overflow", <<<<"a">>, <<"a", OVERFLOW_REPEAT>>>>, <<>>,
             Range(None, Some(400)), FALSE)}

\* The catalogs: at most MaxProducts products, each listed once.
Catalogs ==
    {catalog \in SeqsUpTo(ProductSet, MaxProducts) :
        \A i, j \in 1..Len(catalog) : catalog[i] = catalog[j] => i = j}

\* The price pattern lists of the configurations.
PatternLists ==
    {<<>>,
     <<[pattern |-> <<"\\$", "\\s*", "{price}">>, min_value |-> None]>>,
     <<[pattern |-> <<"(", "{price}">>, min_value |-> None],
       [pattern |-> <<"{price}", "\\s*", "U+20AC">>, min_value |-> Some(300)],
       [pattern |-> <<"\\$", "\\s*", "{price}">>, min_value |-> None]>>}

KeywordParts ==
    {<<"a">>, <<"U+0430", " ", "b">>, <<"A", "(">>, <<"(", "b">>}

PriceParts ==
    {<<>>,
     <<" ", "$", "1", ".", "9", "9">>,
     <<" ", "$", "2">>,
     <<" ", "$", "4">>,
     <<" ", "$", "4", ".", "0", "1">>,
     <<" ", "2", "U+20AC">>}

Messages == {<<>>} \cup {k \o p : k \in KeywordParts, p \in PriceParts}

\* The names of the products match_message returned a result for.
ResultNames == {matched_products[i].product_name : i \in 1..Len(matched_products)}

\* The keyword test on a text of match_text.
AnyHit(text, keywords) == \E i \in 1..Len(keywords) : _match_keyword(text, keywords[i])

\* The keyword test of the message in hand.
Hit(kw) == _match_keyword(match_text(message_text), kw)

\* C1: a product that declares a price range yields no result when no price
\* is found in the message.
C1_NoPriceNoMatch ==
    pc = "matched" =>
        \A k \in 1..Len(products) :
            (products[k].price_range # None /\ _extract_price(message_text) = None)
                => products[k].name \notin ResultNames

\* C2: no result is for a product one of whose exclusion keywords matches,
\* whatever its inclusion keywords and the price.
C2_ExclusionOverridesInclusion ==
    pc = "matched" =>
        \A text \in {match_text(message_text)} :
            \A k \in 1..Len(products) :
                products[k].name \in ResultNames
                    => ~ AnyHit(text, products[k].exclude_keywords)

\* An exclusion keyword matched on the span of an inclusion keyword, inside
\* the span of another one, and another product of the catalog matched.
C2_Witness ==
    /\ pc = "matched"
    /\ \E k \in 1..Len(products) :
          /\ products[k].name = "span"
          /\ Hit(<<"a", " ", "b">>) /\ Hit(<<"b">>)
          /\ ~ Hit(products[k].exclude_keywords[1])
          /\ Hit(products[k].exclude_keywords[2])
    /\ ResultNames = {"plain"}

\* min <= price <= max, min being 0 and max unbounded when absent.
WithinRange(price_range, price) ==
    /\ (IF price_range.min = None THEN 0 ELSE price_range.min[1]) <= price
    /\ (price_range.max = None \/ price <= price_range.max[1])

\* C3: for a product whose keywords qualify and a price p found in the
\* message, there is a result iff min <= p <= max, min being 0 and max
\* unbounded when absent.
C3_PriceRangeInclusive ==
    pc = "matched" =>
        \A text \in {match_text(message_text)}, found \in {_extract_price(message_text)} :
            \A k \in 1..Len(products) :
                (/\ products[k].price_range # None
                 /\ found # None
                 /\ AnyHit(text, products[k].keywords)
                 /\ ~ AnyHit(text, products[k].exclude_keywords))
                => (products[k].name \in ResultNames
                    <=> WithinRange(products[k].price_range[1], found[1].value))

\* A message priced at the maximum of a product's range matched it.
C3_Witness ==
    /\ pc = "matched"
    /\ _extract_price(message_text) # None
    /\ _extract_price(message_text)[1].value = 400
    /\ \E i \in 1..Len(matched_products) :
          /\ matched_products[i].product_name = "two"
          /\ matched_products[i].price = Some(400)
    /\ \E k \in 1..Len(products) :
          /\ products[k].name = "two"
          /\ products[k].price_range[1].max = Some(400)

\* What each product from the k-th on yields when it is the whole catalog.
RECURSIVE AloneFrom(_)
AloneFrom(k) ==
    IF k > Len(products) THEN <<>>
    ELSE <<match_from(<<products[k]>>, 1, message_text).matches>> \o AloneFrom(k + 1)

RECURSIVE Flatten(_)
Flatten(lists) == IF lists = <<>> THEN <<>> ELSE Head(lists) \o Flatten(Tail(lists))

\* C4: the list match_message returns is made of what each product yields
\* on its own, at most one result per product, in catalog order.
C4_ResultsInCatalogOrder ==
    pc = "matched" =>
        \A alone \in {AloneFrom(1)} :
            /\ \A k \in 1..Len(alone) : Len(alone[k]) <= 1
            /\ matched_products = Flatten(alone)

\* Two different products matched one message.
C4_Witness ==
    /\ pc = "matched"
    /\ Len(products) = 2
    /\ Len(matched_products) = 2
    /\ matched_products[1].product_name = products[1].name
    /\ matched_products[2].product_name = products[2].name
    /\ products[1].name # products[2].name

\* C5: the matched keywords of a result are the inclusion keywords of its
\* product that match, as written, in the order of the list, and there is
\* at least one: a product with no matching inclusion keyword has no result.
C5_AllMatchedKeywords ==
    pc = "matched" =>
        \A text \in {match_text(message_text)} :
            \A i \in 1..Len(matched_products) :
                /\ matched_products[i].matched_keywords # <<>>
                /\ \A k \in 1..Len(products) :
                      products[k].name = matched_products[i].product_name
                          => matched_products[i].matched_keywords
                                 = SelectSeq(products[k].keywords,
                                             LAMBDA kw : _match_keyword(text, kw))

\* The first and the third keyword of a product matched, the second did not.
C5_Witness ==
    /\ pc = "matched"
    /\ \E i \in 1..Len(matched_products) :
          /\ matched_products[i].product_name = "two"
          /\ matched_products[i].matched_keywords = <<<<"a">>, <<"b">>>>

\* C9: no exception escapes match_message, and every product that
\* qualifies on its own is in the result, whatever fails in the others.
C9_NoFailureIsFatal ==
    /\ pc # "raised"
    /\ pc = "matched" =>
          \A k \in 1..Len(products) :
              (~ _match_product_raises(message_text, products[k])
               /\ _match_product(message_text, products[k]) # None)
                  => products[k].name \in ResultNames

(***************************************************************************)
(* Specification SpecCalls: the callers of Callers each call match_message *)
(* on the one ProductMatcher, for messages of their own, and their calls   *)
(* interleave between two products of the loop of lines 79-82.  All a call *)
(* writes between two such points is local to it (lines 97-123).           *)
(*                                                                         *)
(* calls[c] is the call of caller c: status "idle" before the call,        *)
(* "running" in the loop, "returned" or "raised" after it; message_text    *)
(* its argument; index the position in self.products of the product the   *)
(* loop handles next; matched_products its local list, the value returned  *)
(* once status is "returned".                                              *)
(***************************************************************************)
Callers == {"t1", "t2"}

CallMessages ==
    {<<>>,
     <<"a", " ", "$", "2">>,
     <<"U+0430", " ", "b">>,
     <<"A", "(", " ", "$", "4", ".", "0", "1">>}

IdleCall == [message_text |-> <<>>, matched_products |-> <<>>, status |-> "idle", index |-> 0]

InitCalls ==
    /\ case_sensitive = FALSE
    /\ whole_word = FALSE
    /\ regex_enabled \in BOOLEAN
    /\ products \in Catalogs
    /\ price_patterns = <<[pattern |-> <<"\\$", "\\s*", "{price}">>, min_value |-> None]>>
    /\ IdleOutputs
    /\ message_text = <<>>
    /\ keyword = <<>>
    /\ pc = "idle"
    /\ price_string = <<>>
    /\ parsed_price = None
    /\ calls = [c \in Callers |-> IdleCall]
    /\ max_age_days = None
    /\ save_matches = TRUE
    /\ telegram_enabled = TRUE
    /\ tasks = <<>>
    /\ matched_messages = <<>>
    /\ matches_file = <<>>
    /\ last_save = "none"

\* Line 82 by every caller in the loop, as if matched_products were one list
\* shared by the calls.
appended_shared(cs, c, info) ==
    [d \in DOMAIN cs |->
        IF cs[d].status = "running"
        THEN [cs[d] EXCEPT !.matched_products = @ \o info, !.index = IF d = c THEN @ + 1 ELSE @]
        ELSE cs[d]]

\* Lines 81-82 and the step to the next product: caller c appends info (<<>>
\* or one match) to the list of its call.
appended(cs, c, info) ==
    [cs EXCEPT ![c].matched_products = @ \o info, ![c].index = @ + 1]

\* Lines 74-77: the call returns [] for an empty message, else enters the loop.
CallMatchMessage(c, msg) ==
    /\ calls[c].status = "idle"
    /\ calls' = [calls EXCEPT ![c] =
                    IF msg = <<>>
                    THEN [status |-> "returned", message_text |-> msg, index |-> 0,
                          matched_products |-> <<>>]
                    ELSE [status |-> "running", message_text |-> msg, index |-> 1,
                          matched_products |-> <<>>]]
    /\ UNCHANGED <<matcher_config, engine_vars>>
    /\ UNCHANGED <<price_string, parsed_price, channel_vars>>

\* Lines 79-82 for one product: _match_product returns and its match, if any,
\* is appended, or an exception escapes it and the call.
MatchNextProduct(c) ==
    /\ calls[c].status = "running"
    /\ calls[c].index <= Len(products)
    /\ \E outcome \in {match_product_outcome(calls[c].message_text, products[calls[c].index])} :
          calls' = IF outcome.raises
                   THEN [calls EXCEPT ![c].status = "raised"]
                   ELSE appended(calls, c, outcome.info)
    /\ UNCHANGED <<matcher_config, engine_vars>>
    /\ UNCHANGED <<price_string, parsed_price, channel_vars>>

\* Line 84.
ReturnMatches(c) ==
    /\ calls[c].status = "running"
    /\ calls[c].index > Len(products)
    /\ calls' = [calls EXCEPT ![c].status = "returned"]
    /\ UNCHANGED <<matcher_config, engine_vars>>
    /\ UNCHANGED <<price_string, parsed_price, channel_vars>>

NextCalls ==
    \/ \E c \in Callers, msg \in CallMessages : CallMatchMessage(c, msg)
    \/ \E c \in Callers : MatchNextProduct(c)
    \/ \E c \in Callers : ReturnMatches(c)

SpecCalls == InitCalls /\ [][NextCalls]_vars

\* The call of caller c has ended as match_message ends when run alone on
\* its message.
EndsAsAlone(call) ==
    \A alone \in {match_message_outcome(call.message_text)} :
        /\ call.status = "returned" => (~ alone.raises /\ call.matched_products = alone.matches)
        /\ call.status = "raised" => alone.raises

\* C15: in every interleaving of the calls of match_message on one matcher,
\* no step changes the configuration of the matcher and every call that has
\* ended has ended as it does when run alone.
C15_ConcurrentCallsIndependent ==
    [][/\ matcher_config' = matcher_config
       /\ \A c \in Callers : EndsAsAlone(calls'[c])]_vars

\* Two calls for different messages are in the loop at once, each past its
\* first product, with different matches collected.
C15_Witness ==
    /\ calls # <<>>
    /\ calls["t1"].status = "running"
    /\ calls["t2"].status = "running"
    /\ calls["t1"].index > 1
    /\ calls["t2"].index > 1
    /\ calls["t1"].matched_products # <<>>
    /\ calls["t2"].matched_products # <<>>
    /\ calls["t1"].matched_products # calls["t2"].matched_products

(***************************************************************************)
(* ChannelMonitor and Notifier                                             *)
(*                                                                         *)
(* A message is a record [id, message, date]: message is the text (<<>>    *)
(* for no text), date is None or Some(day).  Times are in whole days.      *)
(*                                                                         *)
(* tasks[t] is one coroutine that runs _process_message: the handler of a  *)
(* new message, or check_history.  Its fields:                             *)
(*   pc            "idle" before it exists; "ready" between two messages;  *)
(*                 "get_channel_name", "get_message_link", "send_message"  *)
(*                 and "sleep" while it is suspended in that await;        *)
(*                 "reported" once check_history has logged its totals     *)
(*   messages      the messages it was given, oldest first                 *)
(*   queue         those not handled yet                                   *)
(*   message       the message in hand, None before the first              *)
(*   now           the clock when the message in hand was taken up         *)
(*   stats         the stats argument: None for a handler                  *)
(*   matches, idx  the list returned by match_message, the loop index      *)
(*   channel_name, message_link                                            *)
(*   effects       what the task has done outside itself, in order:        *)
(*                 client.send_message ended ("sent", "send_failed"),      *)
(*                 asyncio.sleep called ("sleep"), _save_match called      *)
(*                 ("save"), each with the message id and product name     *)
(*   outcome       how _process_message ended for the message in hand      *)
(*   report        the totals logged by check_history, None before         *)
(* The tasks run on one event loop: a task runs alone from one await to    *)
(* the next, and an action is such a stretch of one task.                  *)
(***************************************************************************)
Message(id, text, date) == [id |-> id, date |-> date, message |-> text]

Tasks == {1, 2}

IdleTask ==
    [pc |-> "idle", matches |-> <<>>, outcome |-> "none", message |-> None,
     messages |-> <<>>, queue |-> <<>>, now |-> None, stats |-> None, idx |-> 0,
     channel_name |-> "", message_link |-> "", effects |-> <<>>, report |-> None]

\* The catalog of the monitor: "silent" has notify: false.
MonitorProducts ==
    <<Product("first", <<<<"a">>>>, <<>>, None, TRUE),
      Product("second", <<<<"a">>, <<"b">>>>, <<>>, None, TRUE),
      Product("silent", <<<<"b">>>>, <<>>, None, FALSE)>>

\* The statistics of lines 387-393 and 402-408.
ZeroStats ==
    [messages_scanned |-> 0, matches_found |-> 0, messages_skipped_old |-> 0,
     messages_no_text |-> 0, messages_no_match |-> 0]

\* stats[key] += 1 when stats is given.
Count(stats, key) == IF stats = None THEN None ELSE Some([stats[1] EXCEPT ![key] = @ + 1])

\* As _is_message_too_old, without the test max_age_days <= 0.
_is_message_too_old_no_sign_test(message, now) ==
    IF max_age_days = None \/ max_age_days[1] = 0 THEN FALSE
    ELSE IF message.date = None THEN FALSE
    ELSE message.date[1] < now - max_age_days[1]

\* ChannelMonitor._is_message_too_old; now is the value of datetime.now().
_is_message_too_old(message, now) ==
    IF max_age_days = None \/ max_age_days[1] = 0 \/ max_age_days[1] <= 0 THEN FALSE
    ELSE IF message.date = None THEN FALSE
    ELSE message.date[1] < now - max_age_days[1]

\* The task as it takes up a message (line 193).
take_up(task, message, now) ==
    [task EXCEPT !.message = Some(message), !.now = Some(now),
                 !.stats = Count(@, "messages_scanned"),
                 !.matches = <<>>, !.idx = 0, !.pc = "ready"]

\* Lines 196-212: the message is skipped, being too old or without text.
skipped(message, now) == _is_message_too_old(message, now) \/ message.message = <<>>

\* Lines 224-231, and 272: the task after the call of match_message, which
\* ended with outcome.
after_match(taken, outcome) ==
    IF outcome.raises
    THEN [taken EXCEPT !.outcome = "error"]       \* line 272
    ELSE IF outcome.matches = <<>>
    THEN [taken EXCEPT !.stats = Count(@, "messages_no_match"), !.outcome = "no_match"]
    ELSE [taken EXCEPT !.matches = outcome.matches, !.outcome = "none",
                       !.pc = "get_channel_name"]

\* Lines 190-231 of _process_message for one message: the task at its
\* return, or at the await of _get_channel_name.
process_start(task, message, now) ==
    LET taken == take_up(task, message, now)
    IN IF _is_message_too_old(message, now)
       THEN [taken EXCEPT !.stats = Count(@, "messages_skipped_old"), !.outcome = "too_old"]
       ELSE IF message.message = <<>>
       THEN [taken EXCEPT !.stats = Count(@, "messages_no_text"), !.outcome = "no_text"]
       ELSE With(match_message_outcome(message.message),
                 LAMBDA outcome : after_match(taken, outcome))

Effect(kind, task) ==
    [kind |-> kind, message_id |-> task.message[1].id,
     product_name |-> task.matches[task.idx].product_name]

\* The monitor as one task sees and changes it.
View(t) ==
    [task |-> tasks[t], matched_messages |-> matched_messages, matches_file |-> matches_file,
     last_save |-> last_save]

\* The record of lines 346-357.
match_record(task) ==
    [product_name |-> task.matches[task.idx].product_name,
     matched_keywords |-> task.matches[task.idx].matched_keywords,
     price |-> task.matches[task.idx].price,
     channel_name |-> task.channel_name,
     message_text |-> task.message[1].message,
     message_link |-> task.message_link,
     message_id |-> task.message[1].id,
     date |-> task.message[1].date]

WriteOutcomes == {"ok", "open_fails", "write_fails"}

\* As _save_match, but the file is written with the new record alone.
_save_match_record_alone(m, write) ==
    [m EXCEPT !.matched_messages = Append(@, match_record(m.task)),
              !.matches_file = IF write = "ok" THEN <<match_record(m.task)>>
                               ELSE IF write = "open_fails" THEN @
                               ELSE <<>>,
              !.last_save = IF write = "ok" THEN "saved" ELSE "failed"]

\* ChannelMonitor._save_match: the record is appended, then the file is
\* rewritten with the whole list.  When open() fails the file is as it was;
\* when the write fails the file has been truncated by open().  The
\* exception is logged (line 367).
_save_match(m, write) ==
    [m EXCEPT !.matched_messages = Append(@, match_record(m.task)),
              !.matches_file = IF write = "ok" THEN Append(m.matched_messages, match_record(m.task))
                               ELSE IF write = "open_fails" THEN @
                               ELSE <<>>,
              !.last_save = IF write = "ok" THEN "saved" ELSE "failed"]

\* As delay_due, but the delay follows the last match too.
delay_always(idx, matches) == idx <= Len(matches)

\* Line 260.
delay_due(idx, matches) == idx < Len(matches)

\* The loop of lines 247-270 from a point of the iteration of task.idx
\* ("notify": line 255, "delay": line 260, "save": line 264) up to the next
\* await or the end of the loop.  writes[i] is how the write of the file
\* ends in the i-th iteration.
RECURSIVE loop_from(_, _, _)
loop_from(m, point, writes) ==
    CASE point = "notify" ->
            \* Notifier.send_notification, lines 44-50
            IF m.task.matches[m.task.idx].notify /\ telegram_enabled
            THEN [m EXCEPT !.task.pc = "send_message"]
            ELSE loop_from(m, "delay", writes)
      [] point = "delay" ->
            IF delay_due(m.task.idx, m.task.matches)
            THEN [m EXCEPT !.task.pc = "sleep",
                           !.task.effects = Append(@, Effect("sleep", m.task))]
            ELSE loop_from(m, "save", writes)
      [] point = "save" ->
            LET saved == IF save_matches
                         THEN [_save_match(m, writes[m.task.idx])
                                  EXCEPT !.task.effects = Append(@, Effect("save", m.task))]
                         ELSE m
                counted == [saved EXCEPT !.task.stats = Count(@, "matches_found")]
            IN IF m.task.idx < Len(m.task.matches)
               THEN loop_from([counted EXCEPT !.task.idx = @ + 1], "notify", writes)
               ELSE [counted EXCEPT !.task.pc = "ready", !.task.outcome = "processed"]

\* As send_done, but the exception of a failed send escapes to line 272.
send_done_failure_escapes(m, ok, writes) ==
    IF ok
    THEN loop_from([m EXCEPT !.task.effects = Append(@, Effect("sent", m.task))], "delay", writes)
    ELSE [m EXCEPT !.task.effects = Append(@, Effect("send_failed", m.task)),
                   !.task.pc = "ready", !.task.outcome = "error"]

\* client.send_message has ended (notifier.py, lines 122-133): an exception
\* is logged and goes no further; the loop goes on from line 260.
send_done(m, ok, writes) ==
    loop_from([m EXCEPT !.task.effects =
                   Append(@, Effect(IF ok THEN "sent" ELSE "send_failed", m.task))],
              "delay", writes)

\* The monitor after task t has run up to m.
TaskBecomes(t, m) ==
    /\ tasks' = [tasks EXCEPT ![t] = m.task]
    /\ matched_messages' = m.matched_messages
    /\ matches_file' = m.matches_file
    /\ last_save' = m.last_save
    /\ UNCHANGED <<matcher_config, price_string, parsed_price, calls,
                   max_age_days, save_matches, telegram_enabled>>

\* The same, for a stretch that makes no call of the engine.
Becomes(t, m) ==
    /\ TaskBecomes(t, m)
    /\ UNCHANGED engine_vars

\* A new message arrives and its handler is created (lines 68-71).
NewMessage(t, message) ==
    /\ tasks[t].pc = "idle"
    /\ Becomes(t, [View(t) EXCEPT !.task.pc = "ready", !.task.messages = <<message>>,
                                  !.task.queue = <<message>>])

\* check_history up to its first call of _process_message (lines 380-421):
\* fetched is what iter_messages gives, newest first.
StartScan(t, fetched) ==
    /\ tasks[t].pc = "idle"
    /\ \E oldest_first \in {[i \in 1..Len(fetched) |-> fetched[Len(fetched) + 1 - i]]} :
          Becomes(t, [View(t) EXCEPT !.task.pc = "ready", !.task.messages = oldest_first,
                                     !.task.queue = oldest_first,
                                     !.task.stats = Some(ZeroStats)])

\* _process_message is called for the next message and runs to its return
\* or to the await of _get_channel_name.
ProcessMessage(t, now) ==
    /\ tasks[t].pc = "ready"
    /\ tasks[t].queue # <<>>
    /\ Becomes(t, [View(t) EXCEPT !.task =
                      process_start([tasks[t] EXCEPT !.queue = Tail(@)], Head(tasks[t].queue), now)])

\* message.get_chat() of _get_channel_name ends (lines 284-300); the task
\* goes on to the await of _get_message_link.
GotChannelName(t, ok) ==
    /\ tasks[t].pc = "get_channel_name"
    /\ Becomes(t, [View(t) EXCEPT !.task.channel_name = IF ok THEN "@channel" ELSE "Unknown Channel",
                                  !.task.pc = "get_message_link"])

\* message.get_chat() of _get_message_link ends (lines 310-325); the task
\* enters the loop and runs to its first await.
GotMessageLink(t, ok, writes) ==
    /\ tasks[t].pc = "get_message_link"
    /\ Becomes(t, loop_from([View(t) EXCEPT !.task.message_link =
                                               IF ok THEN "https://t.me/channel/id" ELSE "",
                                            !.task.idx = 1],
                            "notify", writes))

\* client.send_message ends, with or without an exception.
SendMessageDone(t, ok, writes) ==
    /\ tasks[t].pc = "send_message"
    /\ Becomes(t, send_done(View(t), ok, writes))

\* asyncio.sleep(0.5) ends.
SleepDone(t, writes) ==
    /\ tasks[t].pc = "sleep"
    /\ Becomes(t, loop_from(View(t), "save", writes))

\* check_history logs its totals (lines 423-448).
ScanComplete(t) ==
    /\ tasks[t].pc = "ready"
    /\ tasks[t].queue = <<>>
    /\ tasks[t].stats # None
    /\ Becomes(t, [View(t) EXCEPT !.task.pc = "reported",
                                  !.task.report =
                                      Some([matches_found |-> tasks[t].stats[1].matches_found,
                                            notifications_sent |-> tasks[t].stats[1].matches_found,
                                            matches_saved |-> tasks[t].stats[1].matches_found])])

(***************************************************************************)
(* Specification Spec: the monitor started by start() with any             *)
(* configuration of the engine: the handler of a new message reads its     *)
(* text, calls match_message and, for a message that matches, goes on      *)
(* through its awaits to the notifications and the saved records.  The     *)
(* engine variables show the call of match_message in progress; the call   *)
(* is synchronous, so no other step of the event loop happens during it.   *)
(* One message arrives, the chat is found and the file is written; a send  *)
(* may fail.  SpecMonitor has the handlers of two messages interleave and  *)
(* the writes of the file fail.                                            *)
(***************************************************************************)
Handlers == {1}

Init ==
    /\ case_sensitive \in BOOLEAN
    /\ whole_word \in BOOLEAN
    /\ regex_enabled \in BOOLEAN
    /\ products \in Catalogs
    /\ price_patterns \in PatternLists
    /\ IdleOutputs
    /\ message_text = <<>>
    /\ keyword = <<>>
    /\ pc = "idle"
    /\ price_string = <<>>
    /\ parsed_price = None
    /\ calls = <<>>
    /\ max_age_days = None
    /\ save_matches = TRUE
    /\ telegram_enabled = TRUE
    /\ tasks = [t \in Handlers |-> IdleTask]
    /\ matched_messages = <<>>
    /\ matches_file = <<>>
    /\ last_save = "none"

\* A message arrives and its handler runs up to the call of match_message
\* (lines 68-71 and 190-221), or to its return for a message that is
\* skipped (lines 204, 212).
Receive(t, msg) ==
    /\ pc = "idle"
    /\ tasks[t].pc = "idle"
    /\ IF skipped(Message(t, msg, None), 0)
       THEN /\ TaskBecomes(t, [View(t) EXCEPT !.task =
                                  process_start([tasks[t] EXCEPT !.messages = <<Message(t, msg, None)>>],
                                                Message(t, msg, None), 0)])
            /\ UNCHANGED engine_vars
       ELSE /\ message_text' = msg
            /\ pc' = "processing"
            /\ TaskBecomes(t, [View(t) EXCEPT !.task.pc = "ready",
                                              !.task.messages = <<Message(t, msg, None)>>,
                                              !.task.queue = <<Message(t, msg, None)>>])
            /\ UNCHANGED <<keyword, normalized, kw_result, price_info, matched_products,
                           raised>>

\* The call of match_message (line 222): it returns its list, or an
\* exception escapes it, which _process_message catches at line 272.
MatchMessage ==
    /\ pc = "processing"
    /\ \E outcome \in {match_message_outcome(message_text)} :
          IF outcome.raises
          THEN /\ raised' = "OverflowError"
               /\ pc' = "raised"
               /\ UNCHANGED matched_products
          ELSE /\ matched_products' = outcome.matches
               /\ pc' = "matched"
               /\ UNCHANGED raised
    /\ UNCHANGED <<case_sensitive, whole_word, regex_enabled, products, price_patterns,
                   message_text, keyword, normalized, kw_result, price_info>>
    /\ UNCHANGED monitor_vars

\* The handler goes on from the call of match_message (lines 224-231): it
\* returns when nothing matched, or by its handler of line 272, and is
\* suspended in the await of _get_channel_name otherwise.
Return(t) ==
    /\ pc \in {"matched", "raised"}
    /\ tasks[t].pc = "ready"
    /\ tasks[t].queue # <<>>
    /\ message_text' = <<>>
    /\ matched_products' = <<>>
    /\ raised' = "none"
    /\ pc' = "idle"
    /\ UNCHANGED <<keyword, normalized, kw_result, price_info>>
    /\ TaskBecomes(t, [View(t) EXCEPT !.task =
                          after_match(take_up([tasks[t] EXCEPT !.queue = Tail(@)],
                                              Head(tasks[t].queue), 0),
                                      [raises |-> pc = "raised", matches |-> matched_products])])

\* How the write of the file ends in each iteration of the loop: in Spec
\* every write succeeds (SpecMonitor and SpecScan have them fail).
HandlerWrites == {[i \in 1..MaxProducts |-> "ok"]}

Next ==
    \/ \E t \in Handlers, msg \in Messages : Receive(t, msg)
    \/ MatchMessage
    \/ \E t \in Handlers : Return(t)
    \/ pc = "idle" /\ \E t \in Handlers : GotChannelName(t, TRUE)
    \/ pc = "idle" /\ \E t \in Handlers, writes \in HandlerWrites :
                          GotMessageLink(t, TRUE, writes)
    \/ pc = "idle" /\ \E t \in Handlers, ok \in BOOLEAN, writes \in HandlerWrites :
                          SendMessageDone(t, ok, writes)
    \/ pc = "idle" /\ \E t \in Handlers, writes \in HandlerWrites : SleepDone(t, writes)

Spec == Init /\ [][Next]_vars

(***************************************************************************)
(* Specification SpecMonitor: the monitor started by start(): the handlers *)
(* of two new messages run on the event loop and interleave at their       *)
(* awaits; any send and any write of the file may fail.                    *)
(***************************************************************************)
MonitorTexts == {<<"a">>, <<"b">>, <<"a", " ", "b">>}

InitMonitor ==
    /\ case_sensitive = FALSE
    /\ whole_word = FALSE
    /\ regex_enabled = TRUE
    /\ products = MonitorProducts
    /\ price_patterns = <<>>
    /\ IdleOutputs
    /\ message_text = <<>>
    /\ keyword = <<>>
    /\ pc = "idle"
    /\ price_string = <<>>
    /\ parsed_price = None
    /\ calls = <<>>
    /\ max_age_days = None
    /\ save_matches \in BOOLEAN
    /\ telegram_enabled \in BOOLEAN
    /\ tasks = [t \in Tasks |-> IdleTask]
    /\ matched_messages = <<>>
    /\ matches_file = <<>>
    /\ last_save = "none"

\* How the write of the file ends in each iteration of the loop.
Writes == [1..Len(MonitorProducts) -> WriteOutcomes]

NextMonitor ==
    \/ \E t \in Tasks, text \in MonitorTexts : NewMessage(t, Message(t, text, None))
    \/ \E t \in Tasks : ProcessMessage(t, 0)
    \/ \E t \in Tasks : GotChannelName(t, TRUE)
    \/ \E t \in Tasks, writes \in Writes : GotMessageLink(t, TRUE, writes)
    \/ \E t \in Tasks, ok \in BOOLEAN, writes \in Writes : SendMessageDone(t, ok, writes)
    \/ \E t \in Tasks, writes \in Writes : SleepDone(t, writes)

SpecMonitor == InitMonitor /\ [][NextMonitor]_vars

\* The product names of a sequence of matches, records or effects.
Names(seq) == [i \in 1..Len(seq) |-> seq[i].product_name]

\* The position of a product in the catalog.
CatalogIndex(name) == CHOOSE k \in 1..Len(products) : products[k].name = name

InCatalogOrder(names) ==
    \A i, j \in 1..Len(names) : i < j => CatalogIndex(names[i]) < CatalogIndex(names[j])

IsPrefix(s, t) == Len(s) <= Len(t) /\ SubSeq(t, 1, Len(s)) = s

\* The sends and the delays among the effects of a task, a failed send
\* counted as a send.
SendsAndDelays(effects) ==
    LET kept == SelectSeq(effects, LAMBDA e : e.kind \in {"sent", "send_failed", "sleep"})
    IN [i \in 1..Len(kept) |->
           [kind |-> IF kept[i].kind = "sleep" THEN "sleep" ELSE "send",
            product_name |-> kept[i].product_name]]

\* The task has handled its message to the end of the loop.
Processed(task) == task.pc = "ready" /\ task.outcome = "processed"

\* C16 as stated: once a message is processed with Telegram notifications
\* enabled, one notification was sent for each of its matches, in catalog order, and the delays are those
\* between two consecutive notifications: none before the first, none after
\* the last.
C16_OneNotificationPerMatch ==
    \A t \in DOMAIN tasks :
        (telegram_enabled /\ Processed(tasks[t])) =>
            \A done \in {SendsAndDelays(tasks[t].effects)} :
                /\ Names(SelectSeq(done, LAMBDA e : e.kind = "send")) = Names(tasks[t].matches)
                /\ InCatalogOrder(Names(tasks[t].matches))
                /\ \A i \in 1..Len(done) : (done[i].kind = "sleep") <=> (i % 2 = 0)
                /\ done # <<>> => done[Len(done)].kind = "send"

\* What the loop does for the matches from the i-th on: a send for a match
\* with notify set when Telegram is enabled, a delay after each match but
\* the last.
RECURSIVE ExpectedFrom(_, _)
ExpectedFrom(matches, i) ==
    IF i > Len(matches) THEN <<>>
    ELSE (IF matches[i].notify /\ telegram_enabled
          THEN <<[kind |-> "send", product_name |-> matches[i].product_name]>> ELSE <<>>)
         \o (IF i < Len(matches)
             THEN <<[kind |-> "sleep", product_name |-> matches[i].product_name]>> ELSE <<>>)
         \o ExpectedFrom(matches, i + 1)

\* C16, with the notify flag and the place of the delay as the loop has
\* them: the matches of a message are taken in catalog order; a
\* notification is sent for each match whose product has notify set, and
\* for none when Telegram notifications are disabled, the one for an earlier
\* match before the one for a later match; a delay follows every match but
\* the last, whether or not a notification was sent for it.
C16_NotifiedInCatalogOrder ==
    \A t \in DOMAIN tasks :
        \A done \in {SendsAndDelays(tasks[t].effects)}, expected \in {ExpectedFrom(tasks[t].matches, 1)} :
            /\ InCatalogOrder(Names(tasks[t].matches))
            /\ IsPrefix(done, expected)
            /\ Processed(tasks[t]) => done = expected

\* A processed message with three matches, the last of them silent: two
\* sends, each followed by a delay.
C16_Witness ==
    /\ tasks # <<>>
    /\ Processed(tasks[1])
    /\ Len(tasks[1].matches) = 3
    /\ ~ tasks[1].matches[3].notify
    /\ Len(SendsAndDelays(tasks[1].effects)) = 4
    /\ SendsAndDelays(tasks[1].effects)[4].kind = "sleep"

\* C20: matched_messages only grows by appending, and when the last
\* _save_match succeeded the file holds the whole of matched_messages.
C20_FileHoldsWholeList ==
    [][/\ IsPrefix(matched_messages, matched_messages')
       /\ (save_matches /\ last_save' = "saved") => matches_file' = matched_messages']_vars

\* The records of two messages are interleaved in the list, the last save
\* succeeded and a handler is still in its loop.
C20_Witness ==
    /\ save_matches
    /\ last_save = "saved"
    /\ Len(matched_messages) >= 3
    /\ matches_file = matched_messages
    /\ \E i, j, k \in 1..Len(matched_messages) :
          /\ i < j /\ j < k
          /\ matched_messages[i].message_id = 1
          /\ matched_messages[j].message_id = 2
          /\ matched_messages[k].message_id = 1
    /\ \E t \in Tasks : tasks[t].pc = "sleep"

(***************************************************************************)
(* Specification SpecScan: the monitor run with --history: check_history   *)
(* hands the messages of one channel to _process_message one after the    *)
(* other, oldest first, with its stats, and logs its totals.              *)
(***************************************************************************)
ScanTexts == {<<>>, <<"c">>, <<"b">>, <<"a", " ", "b">>}

\* What iter_messages can give: at most MaxScanMessages messages, newest
\* first, the oldest with id 1.
Fetched ==
    UNION {{[i \in 1..n |-> Message(n + 1 - i, texts[i], None)] : texts \in [1..n -> ScanTexts]} :
              n \in 0..MaxScanMessages}

InitScan ==
    /\ case_sensitive = FALSE
    /\ whole_word = FALSE
    /\ regex_enabled = TRUE
    /\ products = MonitorProducts
    /\ price_patterns = <<>>
    /\ IdleOutputs
    /\ message_text = <<>>
    /\ keyword = <<>>
    /\ pc = "idle"
    /\ price_string = <<>>
    /\ parsed_price = None
    /\ calls = <<>>
    /\ max_age_days = None
    /\ save_matches \in BOOLEAN
    /\ telegram_enabled \in BOOLEAN
    /\ tasks = [t \in {1} |-> IdleTask]
    /\ matched_messages = <<>>
    /\ matches_file = <<>>
    /\ last_save = "none"

NextScan ==
    \/ \E fetched \in Fetched : StartScan(1, fetched)
    \/ ProcessMessage(1, 0)
    \/ GotChannelName(1, TRUE)
    \/ \E writes \in Writes : GotMessageLink(1, TRUE, writes)
    \/ \E ok \in BOOLEAN, writes \in Writes : SendMessageDone(1, ok, writes)
    \/ \E writes \in Writes : SleepDone(1, writes)
    \/ ScanComplete(1)

SpecScan == InitScan /\ [][NextScan]_vars

\* The effects of one kind.
OfKind(effects, kinds) == SelectSeq(effects, LAMBDA e : e.kind \in kinds)

\* C17: once check_history has logged its totals, the number of matches it
\* reports equals the number of notifications sent to Telegram during the
\* scan and the number of records the matches file holds.
C17_ReportedTotalsAreTrue ==
    \A t \in DOMAIN tasks :
        tasks[t].report # None =>
            /\ tasks[t].report[1].matches_found = Len(OfKind(tasks[t].effects, {"sent"}))
            /\ tasks[t].report[1].matches_found = Len(matches_file)

\* The messages a task has handled to the end.
Handled(task) == SubSeq(task.messages, 1, Len(task.messages) - Len(task.queue))

\* The message id and product name of each element.
Keys(seq) == [i \in 1..Len(seq) |-> <<seq[i].message_id, seq[i].product_name>>]

\* For the messages from the i-th on: the message id and product name of
\* every match, or of every match to be notified.
RECURSIVE MatchKeysFrom(_, _, _)
MatchKeysFrom(msgs, i, notified_only) ==
    IF i > Len(msgs) THEN <<>>
    ELSE LET found == match_message(msgs[i].message)
             kept == IF notified_only THEN SelectSeq(found, LAMBDA match : match.notify) ELSE found
         IN [k \in 1..Len(kept) |-> <<msgs[i].id, kept[k].product_name>>]
            \o MatchKeysFrom(msgs, i + 1, notified_only)

HasFailedSend(task) == \E i \in 1..Len(task.effects) : task.effects[i].kind = "send_failed"

\* C19: when a send has failed, then between two messages and at the end of
\* the scan, every match of every message handled was saved (save_matches
\* on) and a send was made for every one of them to be notified, the failed
\* one and those after it included; and the scan ends with every message
\* scanned.
C19_FailedSendIsIsolated ==
    \A t \in DOMAIN tasks :
        (HasFailedSend(tasks[t]) /\ tasks[t].pc \in {"ready", "reported"}) =>
            /\ tasks[t].outcome # "error"
            /\ save_matches =>
                  Keys(OfKind(tasks[t].effects, {"save"})) = MatchKeysFrom(Handled(tasks[t]), 1, FALSE)
            /\ Keys(OfKind(tasks[t].effects, {"sent", "send_failed"}))
                  = MatchKeysFrom(Handled(tasks[t]), 1, TRUE)
            /\ tasks[t].pc = "reported" => tasks[t].stats[1].messages_scanned = Len(tasks[t].messages)

\* The first send of the first message failed; its match was saved, the
\* second match of the message was sent, and so was a match of the next
\* message.
C19_Witness ==
    /\ tasks # <<>>
    /\ tasks[1].pc = "reported"
    /\ save_matches
    /\ Len(tasks[1].effects) >= 6
    /\ tasks[1].effects[1].kind = "send_failed"
    /\ \E i, j, k \in 1..Len(tasks[1].effects) :
          /\ tasks[1].effects[i] = [tasks[1].effects[1] EXCEPT !.kind = "save"]
          /\ tasks[1].effects[j].kind = "sent"
          /\ tasks[1].effects[j].message_id = tasks[1].effects[1].message_id
          /\ tasks[1].effects[k].kind = "sent"
          /\ tasks[1].effects[k].message_id # tasks[1].effects[1].message_id

(***************************************************************************)
(* Specification SpecAge: one handler, for every max_age_days of           *)
(* AgeSettings, every message date and every value of the clock.           *)
(***************************************************************************)
AgeSettings == {None} \cup {Some(n) : n \in -1..MaxAgeDays}

Dates == {None} \cup {Some(day) : day \in 0..MaxDay}

InitAge ==
    /\ case_sensitive = FALSE
    /\ whole_word = FALSE
    /\ regex_enabled = TRUE
    /\ products = MonitorProducts
    /\ price_patterns = <<>>
    /\ IdleOutputs
    /\ message_text = <<>>
    /\ keyword = <<>>
    /\ pc = "idle"
    /\ price_string = <<>>
    /\ parsed_price = None
    /\ calls = <<>>
    /\ max_age_days \in AgeSettings
    /\ save_matches = TRUE
    /\ telegram_enabled = TRUE
    /\ tasks = [t \in {1} |-> IdleTask]
    /\ matched_messages = <<>>
    /\ matches_file = <<>>
    /\ last_save = "none"

NextAge ==
    \/ \E date \in Dates : NewMessage(1, Message(1, <<"a">>, date))
    \/ \E now \in 0..MaxDay : ProcessMessage(1, now)
    \/ \E ok \in BOOLEAN : GotChannelName(1, ok)
    \/ \E ok \in BOOLEAN, writes \in Writes : GotMessageLink(1, ok, writes)
    \/ \E ok \in BOOLEAN, writes \in Writes : SendMessageDone(1, ok, writes)
    \/ \E writes \in Writes : SleepDone(1, writes)

SpecAge == InitAge /\ [][NextAge]_vars

\* The message the task has taken up is older than max_age_days, a positive
\* number, on the clock of the task.
OlderThanMaxAge(task) ==
    /\ max_age_days # None
    /\ max_age_days[1] > 0
    /\ task.message[1].date # None
    /\ task.message[1].date[1] < task.now[1] - max_age_days[1]

\* C18: a message older than a positive max_age_days is skipped as too old:
\* it has no matches, no effect and no record; a message is never skipped
\* as too old when max_age_days is unset, 0 or negative or the message has
\* no date.
C18_AgeFilter ==
    \A t \in DOMAIN tasks :
        tasks[t].message # None =>
            /\ OlderThanMaxAge(tasks[t]) =>
                  /\ tasks[t].outcome = "too_old"
                  /\ tasks[t].matches = <<>>
                  /\ tasks[t].effects = <<>>
                  /\ \A i \in 1..Len(matched_messages) :
                        matched_messages[i].message_id # tasks[t].message[1].id
            /\ (\/ max_age_days = None
                \/ max_age_days[1] <= 0
                \/ tasks[t].message[1].date = None) => tasks[t].outcome # "too_old"

\* A message one day older than the limit was skipped.
C18_Witness ==
    /\ tasks # <<>>
    /\ max_age_days = Some(1)
    /\ tasks[1].message # None
    /\ tasks[1].message[1].date = Some(1)
    /\ tasks[1].now = Some(3)
    /\ tasks[1].outcome = "too_old"
    /\ tasks[1].pc = "ready"

====
